---- MODULE Spec2Model ----
(***************************************************************************)
(* Model of the localStorage accessor of schalkneethling/store: the legacy *)
(* JavaScript module (src/unnamed/part_000) and the typed storageActions   *)
(* object (src/unnamed/part_001), both operating on one shared key-value   *)
(* store of strings.                                                       *)
(*                                                                         *)
(* JavaScript values are records [t, v] tagged with their type.  Stored    *)
(* text is a sequence of JSON tokens, so that JSON.stringify and           *)
(* JSON.parse are modelled as real conversions: parse is partial and only  *)
(* inverts stringify on well-formed text.  The values are the primitives   *)
(* and the objects whose properties hold primitives; arrays and nested     *)
(* objects are outside the model.                                          *)
(***************************************************************************)
EXTENDS Integers, Sequences, FiniteSets, TLC

VARIABLES store, last, pc, calls, seen, plans, rets, log

vars == <<store, last, pc, calls, seen, plans, rets, log>>

(***************************************************************************)
(* Bounds of the value domain.                                             *)
(***************************************************************************)
MaxNum == 1

-----------------------------------------------------------------------------
(***************************************************************************)
(* JavaScript / JSON values.                                               *)
(***************************************************************************)
JNull == [t |-> "null", v |-> "null"]

JUndef == [t |-> "undefined", v |-> "undefined"]

JBool(b) == [t |-> "bool", v |-> b]

JNum(n) == [t |-> "num", v |-> n]

JStr(s) == [t |-> "str", v |-> s]

\* An object is its own properties in enumeration order: a sequence of
\* members [k |-> name, x |-> value] with pairwise distinct names.
JObj(ms) == [t |-> "obj", v |-> ms]

Member(k, x) == [k |-> k, x |-> x]

Nums == 0 .. MaxNum

Strs == {"", "x"}

Props == {"a", "b"}

\* The only array-index-like property name of the lexicon: the index of the
\* single character of a one-character string.
IndexKey == "0"

KeyNames == Props \cup {IndexKey}

\* Values a property may hold: the four falsy JSON values and the numbers.
PropVals == {JNull, JBool(FALSE), JStr("")} \cup {JNum(n) : n \in Nums}

Prims == PropVals \cup {JBool(TRUE)} \cup {JStr(s) : s \in Strs}

\* The objects callers pass: those of at most two properties.
Objects ==
    {JObj(<<>>)}
    \cup {JObj(<<Member(p, x)>>) : p \in Props, x \in PropVals}
    \cup {JObj(<<Member(p, x), Member(q, y)>>) :
            <<p, x, q, y>> \in {w \in Props \X PropVals \X Props \X PropVals :
                                  w[1] # w[3]}}

Values == Prims \cup Objects

\* JavaScript truthiness (ToBoolean).
Truthy(val) ==
    CASE val.t = "null" -> FALSE
      [] val.t = "undefined" -> FALSE
      [] val.t = "bool" -> val.v
      [] val.t = "num" -> val.v # 0
      [] val.t = "str" -> val.v # ""
      [] OTHER -> TRUE

ObjKeys(obj) == {obj.v[i].k : i \in 1 .. Len(obj.v)}

ObjGet(obj, p) ==
    LET i == CHOOSE j \in 1 .. Len(obj.v) : obj.v[j].k = p
    IN  obj.v[i].x

\* obj[p] = x on an object: an existing property keeps its place, a new one
\* is appended, except that an index-like name is enumerated first.
ObjPut(obj, p, x) ==
    IF p \in ObjKeys(obj)
    THEN JObj([i \in 1 .. Len(obj.v) |->
                 IF obj.v[i].k = p THEN Member(p, x) ELSE obj.v[i]])
    ELSE IF p = IndexKey
         THEN JObj(<<Member(p, x)>> \o obj.v)
         ELSE JObj(Append(obj.v, Member(p, x)))

\* Object.prototype.hasOwnProperty.call(val, p) for a non-null val and a
\* name p of the lexicon (strings are at most one character long).
HasOwn(val, p) ==
    CASE val.t = "obj" -> p \in ObjKeys(val)
      [] val.t = "str" -> p = IndexKey /\ val.v # ""
      [] OTHER -> FALSE

\* val[p] for a non-null val: undefined when val has no such property.
PropRead(val, p) ==
    CASE val.t = "obj" -> IF p \in ObjKeys(val) THEN ObjGet(val, p) ELSE JUndef
      [] val.t = "str" -> IF p = IndexKey /\ val.v # "" THEN JStr(val.v) ELSE JUndef
      [] OTHER -> JUndef

\* {...val}: the own enumerable properties of val.
Spread(val) ==
    CASE val.t = "obj" -> val
      [] val.t = "str" ->
           IF val.v # "" THEN JObj(<<Member(IndexKey, JStr(val.v))>>) ELSE JObj(<<>>)
      [] OTHER -> JObj(<<>>)

-----------------------------------------------------------------------------
(***************************************************************************)
(* JSON text: a sequence of tokens.                                        *)
(***************************************************************************)
Quote == "\""

StrTok(s) == Quote \o s \o Quote

NumTok(n) == ToString(n)

PrimTok(val) ==
    CASE val.t = "null" -> "null"
      [] val.t = "bool" -> IF val.v THEN "true" ELSE "false"
      [] val.t = "num" -> NumTok(val.v)
      [] val.t = "str" -> StrTok(val.v)

RECURSIVE MemberToks(_, _)
MemberToks(ms, i) ==
    IF i > Len(ms) THEN <<>>
    ELSE (IF i > 1 THEN <<",">> ELSE <<>>)
         \o <<StrTok(ms[i].k), ":", PrimTok(ms[i].x)>>
         \o MemberToks(ms, i + 1)

\* JSON.stringify(val) for a JSON value whose properties hold primitives.
JSONstringify(val) ==
    IF val.t = "obj"
    THEN <<"{">> \o MemberToks(val.v, 1) \o <<"}">>
    ELSE <<PrimTok(val)>>

\* The lexicon of the parser: the tokens of the primitives and of the
\* property names (a property name is a string as well).
PrimToks == {PrimTok(x) : x \in Prims}

KeyToks == {StrTok(k) : k \in KeyNames}

IsPrimTok(tok) == tok \in PrimToks \cup KeyToks

PrimOfTok(tok) ==
    IF tok \in PrimToks
    THEN CHOOSE x \in Prims : PrimTok(x) = tok
    ELSE JStr(CHOOSE k \in KeyNames : StrTok(k) = tok)

IsKeyTok(tok) == tok \in KeyToks

KeyOfTok(tok) == CHOOSE k \in KeyNames : StrTok(k) = tok

ParseOk(val) == [ok |-> TRUE, val |-> val]

ParseError == [ok |-> FALSE, val |-> JUndef]

\* The members of an object from token i on, acc being the object so far.
RECURSIVE ParseMembers(_, _, _)
ParseMembers(toks, i, acc) ==
    IF i + 3 > Len(toks) THEN ParseError
    ELSE IF ~(IsKeyTok(toks[i]) /\ toks[i + 1] = ":" /\ IsPrimTok(toks[i + 2]))
    THEN ParseError
    ELSE LET obj == ObjPut(acc, KeyOfTok(toks[i]), PrimOfTok(toks[i + 2]))
         IN  IF toks[i + 3] = "}"
             THEN IF i + 3 = Len(toks) THEN ParseOk(obj) ELSE ParseError
             ELSE IF toks[i + 3] = ","
                  THEN ParseMembers(toks, i + 4, obj)
                  ELSE ParseError

\* JSON.parse(toks): ok = FALSE stands for the SyntaxError it throws.
JSONparse(toks) ==
    IF Len(toks) = 0 THEN ParseError
    ELSE IF toks[1] = "{"
    THEN IF Len(toks) = 2 /\ toks[2] = "}"
         THEN ParseOk(JObj(<<>>))
         ELSE ParseMembers(toks, 2, JObj(<<>>))
    ELSE IF Len(toks) = 1 /\ IsPrimTok(toks[1])
         THEN ParseOk(PrimOfTok(toks[1]))
         ELSE ParseError

-----------------------------------------------------------------------------
(***************************************************************************)
(* The external store (localStorage): a function from the keys that have   *)
(* an entry to their text.  A call of getItem or setItem may fault         *)
(* (throw); a faulting setItem stores nothing.                             *)
(***************************************************************************)
Keys == {"k1", "k2"}

Faults == {"none", "get", "set"}

NullItem == [isNull |-> TRUE, text |-> <<>>]

\* localStorage.getItem(key): the text, or null when there is no entry.
getItem(st, key) ==
    IF key \in DOMAIN st THEN [isNull |-> FALSE, text |-> st[key]] ELSE NullItem

\* !item for what getItem returned: null and the empty string are falsy.
ItemFalsy(item) == item.isNull \/ item.text = <<>>

\* localStorage.setItem(key, text).
setItem(st, key, text) ==
    [k \in DOMAIN st \cup {key} |-> IF k = key THEN text ELSE st[k]]

removeItem(st, key) == [k \in DOMAIN st \ {key} |-> st[k]]

\* Completions of a legacy function: a returned value or a thrown error.
Return(val) == [thrown |-> FALSE, value |-> val]

Throw(err) == [thrown |-> TRUE, value |-> err]

\* What an operation does: the store it leaves and what its caller gets.
Outcome(st, ret) == [store |-> st, ret |-> ret]

\* Where a read-then-write operation stands after its read: it either goes
\* on to store val, or it is over and its caller gets ret.
WritePlan(val) == [write |-> TRUE, val |-> val]

ReturnPlan(ret) == [write |-> FALSE, ret |-> ret]

-----------------------------------------------------------------------------
(***************************************************************************)
(* The legacy module.  Each operator is one exported function: from the    *)
(* store, the arguments and the store call that faults (if any) to the     *)
(* store left behind and the completion seen by the caller.                *)
(***************************************************************************)

\* A getEntryFromStorage that tests the parsed value instead of the text:
\* a falsy entry reads as null.
LegacyGetCompletionTruthyOnly(st, key, fault) ==
    LET result == IF fault = "get" THEN NullItem ELSE getItem(st, key)
    IN  IF ItemFalsy(result)
        THEN Return(JNull)
        ELSE LET parsed == JSONparse(result.text)
             IN  IF ~parsed.ok THEN Throw("SyntaxError")
                 ELSE IF Truthy(parsed.val) THEN Return(parsed.val)
                 ELSE Return(JNull)

\* getEntryFromStorage(key).  A faulting getItem and a falsy item are caught
\* inside the try block; JSON.parse runs after it.
LegacyGetCompletion(st, key, fault) ==
    LET result == IF fault = "get" THEN NullItem ELSE getItem(st, key)
    IN  IF ItemFalsy(result)
        THEN Return(JNull)
        ELSE LET parsed == JSONparse(result.text)
             IN  IF parsed.ok THEN Return(parsed.val) ELSE Throw("SyntaxError")

LegacyGet(st, key, fault) == Outcome(st, LegacyGetCompletion(st, key, fault))

\* The forEach of setItemInStorage over the members ms of value, from the
\* i-th on: entry[key] is read (a TypeError on null) and, when falsy,
\* assigned (a TypeError on a primitive: an ES module is strict code).
RECURSIVE LegacyPreserveLoop(_, _, _)
LegacyPreserveLoop(entry, ms, i) ==
    IF i > Len(ms) THEN Return(entry)
    ELSE IF entry.t = "null" THEN Throw("TypeError")
    ELSE IF Truthy(PropRead(entry, ms[i].k))
    THEN LegacyPreserveLoop(entry, ms, i + 1)
    ELSE IF entry.t = "obj"
         THEN LegacyPreserveLoop(ObjPut(entry, ms[i].k, ms[i].x), ms, i + 1)
         ELSE Throw("TypeError")

\* A legacy writer whose faulting setItem leaves the entry emptied.
LegacyWriteClobbers(st, key, val, fault) ==
    IF fault = "set"
    THEN Outcome(setItem(st, key, <<>>), Return(JBool(FALSE)))
    ELSE Outcome(setItem(st, key, JSONstringify(val)), Return(JBool(TRUE)))

\* What the try block of a legacy writer does once the entry to store is
\* computed: setItem, then the flag is set.
LegacyWrite(st, key, val, fault) ==
    IF fault = "set"
    THEN Outcome(st, Return(JBool(FALSE)))
    ELSE Outcome(setItem(st, key, JSONstringify(val)), Return(JBool(TRUE)))

\* The rest of a legacy writer after its read: setItem, or the catch block.
LegacyCommit(st, key, plan, fault) ==
    IF plan.write THEN LegacyWrite(st, key, plan.val, fault) ELSE Outcome(st, plan.ret)

\* The preserve branch of setItemInStorage from what getEntryFromStorage
\* completed with, up to the setItem.
LegacyPreservePlan(got, value) ==
    IF got.thrown
    THEN ReturnPlan(Return(JBool(FALSE)))
    ELSE LET merged == LegacyPreserveLoop(got.value, value.v, 1)
         IN  IF merged.thrown
             THEN ReturnPlan(Return(JBool(FALSE)))
             ELSE WritePlan(merged.value)

\* setItemInStorage(key, value, preserveExisting).
LegacySet(st, key, value, preserveExisting, fault) ==
    IF ~preserveExisting
    THEN LegacyWrite(st, key, value, fault)
    ELSE LegacyCommit(st, key,
                      LegacyPreservePlan(LegacyGetCompletion(st, key, fault), value),
                      fault)

\* hasPropertyForKey(key, property): entry && entry[property] !== undefined
\* is the entry itself when the entry is falsy.
LegacyHas(st, key, property, fault) ==
    LET got == LegacyGetCompletion(st, key, fault)
    IN  IF got.thrown
        THEN Outcome(st, Return(JBool(FALSE)))
        ELSE IF ~Truthy(got.value)
        THEN Outcome(st, Return(got.value))
        ELSE Outcome(st, Return(JBool(PropRead(got.value, property) # JUndef)))

\* The forEach of updateStoredPropsForKey: entry[property] is read (a
\* TypeError on null) and, when truthy, assigned.
RECURSIVE LegacyUpdateLoop(_, _, _)
LegacyUpdateLoop(entry, ms, i) ==
    IF i > Len(ms) THEN Return(entry)
    ELSE IF entry.t = "null" THEN Throw("TypeError")
    ELSE IF ~Truthy(PropRead(entry, ms[i].k))
    THEN LegacyUpdateLoop(entry, ms, i + 1)
    ELSE IF entry.t = "obj"
         THEN LegacyUpdateLoop(ObjPut(entry, ms[i].k, ms[i].x), ms, i + 1)
         ELSE Throw("TypeError")

\* updateStoredPropsForKey from what getEntryFromStorage completed with, up
\* to the setItem.
LegacyUpdatePlan(got, propertyUpdates) ==
    IF got.thrown
    THEN ReturnPlan(Return(JBool(FALSE)))
    ELSE LET updated == LegacyUpdateLoop(got.value, propertyUpdates.v, 1)
         IN  IF updated.thrown
             THEN ReturnPlan(Return(JBool(FALSE)))
             ELSE WritePlan(updated.value)

\* updateStoredPropsForKey(key, propertyUpdates).
LegacyUpdate(st, key, propertyUpdates, fault) ==
    LegacyCommit(st, key,
                 LegacyUpdatePlan(LegacyGetCompletion(st, key, fault), propertyUpdates),
                 fault)

-----------------------------------------------------------------------------
(***************************************************************************)
(* The typed storageActions object.  A StorageResult is a record holding   *)
(* exactly the fields of the object literal returned.  An error string is  *)
(* the pair of its fixed part and its interpolated part.                   *)
(***************************************************************************)
Ok(data) == [success |-> TRUE, data |-> data]

Fail(error) == [success |-> FALSE, error |-> error]

NotFoundError(key) == <<key, "not found in storage.">>

\* The error of a catch block: its fixed text and the message caught.
CaughtError(text, msg) == <<text, msg>>

GetFailed == "Failed to get entry from storage:"

SetFailed == "Failed to set item in storage:"

HasFailed == "Failed to check property:"

UpdateFailed == "Failed to update properties:"

\* error?.includes("not found"): true of the not-found error only (the
\* messages of the errors caught are taken not to hold these words).
IncludesNotFound(error) == error[2] = "not found in storage."

\* storageActions.getEntryFromStorage(key).
TypedGetResult(st, key, fault) ==
    IF fault = "get" THEN Fail(CaughtError(GetFailed, "StoreFault"))
    ELSE LET result == getItem(st, key)
         IN  IF ItemFalsy(result) THEN Fail(NotFoundError(key))
             ELSE LET parsed == JSONparse(result.text)
                  IN  IF parsed.ok THEN Ok(parsed.val)
                      ELSE Fail(CaughtError(GetFailed, "SyntaxError"))

TypedGet(st, key, fault) == Outcome(st, TypedGetResult(st, key, fault))

\* A typed writer whose catch block returns the data along with the error.
TypedWriteKeepsData(st, key, val, fault, failed) ==
    IF fault = "set"
    THEN Outcome(st, [success |-> FALSE, data |-> val,
                      error |-> CaughtError(failed, "StoreFault")])
    ELSE Outcome(setItem(st, key, JSONstringify(val)), Ok(val))

\* localStorage.setItem(key, JSON.stringify(val)); return {success, data}
\* inside a try block whose catch reports failed.
TypedWrite(st, key, val, fault, failed) ==
    IF fault = "set"
    THEN Outcome(st, Fail(CaughtError(failed, "StoreFault")))
    ELSE Outcome(setItem(st, key, JSONstringify(val)), Ok(val))

\* {...data, ...Object.fromEntries(entries of ms that pass the filter)} from
\* the i-th member on, acc being the object so far; the filter keeps the
\* entries whose key data owns (own) or does not own (~own).
RECURSIVE SpreadFiltered(_, _, _, _, _)
SpreadFiltered(acc, data, ms, i, own) ==
    IF i > Len(ms) THEN acc
    ELSE SpreadFiltered(IF HasOwn(data, ms[i].k) = own
                        THEN ObjPut(acc, ms[i].k, ms[i].x)
                        ELSE acc,
                        data, ms, i + 1, own)

\* updatedValue of setItemInStorage: the entries of value whose key data
\* does not own, on top of data.
PreserveMerge(data, value) ==
    SpreadFiltered(Spread(data), data, value.v, 1, FALSE)

\* updatedValue of updateStoredPropsForKey: the entries of propertyUpdates
\* whose key data owns, on top of data.
UpdateMerge(data, propertyUpdates) ==
    SpreadFiltered(Spread(data), data, propertyUpdates.v, 1, TRUE)

\* hasOwnProperty.call(data, key) throws a TypeError on null as soon as
\* the filter callback runs, that is when ms has a member.
FilterThrows(data, ms) == data.t = "null" /\ Len(ms) > 0

\* The rest of a typed writer after its read: setItem and the result, or
\* the result already decided.
TypedCommit(st, key, plan, fault, failed) ==
    IF plan.write
    THEN TypedWrite(st, key, plan.val, fault, failed)
    ELSE Outcome(st, plan.ret)

\* The preserve branch of storageActions.setItemInStorage from the result
\* of getEntryFromStorage, up to the setItem.
TypedPreservePlan(got, value) ==
    IF ~got.success /\ IncludesNotFound(got.error)
    THEN WritePlan(value)
    ELSE IF ~got.success
    THEN ReturnPlan(Fail(got.error))
    ELSE IF FilterThrows(got.data, value.v)
    THEN ReturnPlan(Fail(CaughtError(SetFailed, "TypeError")))
    ELSE WritePlan(PreserveMerge(got.data, value))

\* storageActions.setItemInStorage(key, value, preserveExisting).
TypedSet(st, key, value, preserveExisting, fault) ==
    IF ~preserveExisting
    THEN TypedWrite(st, key, value, fault, SetFailed)
    ELSE TypedCommit(st, key,
                     TypedPreservePlan(TypedGetResult(st, key, fault), value),
                     fault, SetFailed)

\* storageActions.hasPropertyForKey(key, property): data && property in data
\* is data itself when data is falsy, and a TypeError on a truthy primitive.
TypedHas(st, key, property, fault) ==
    LET got == TypedGetResult(st, key, fault)
    IN  IF ~got.success
        THEN Outcome(st, Fail(got.error))
        ELSE IF ~Truthy(got.data)
        THEN Outcome(st, Ok(got.data))
        ELSE IF got.data.t = "obj"
        THEN Outcome(st, Ok(JBool(property \in ObjKeys(got.data))))
        ELSE Outcome(st, Fail(CaughtError(HasFailed, "TypeError")))

\* storageActions.updateStoredPropsForKey from the result of
\* getEntryFromStorage, up to the setItem.
TypedUpdatePlan(got, propertyUpdates) ==
    IF ~got.success
    THEN ReturnPlan(Fail(got.error))
    ELSE IF FilterThrows(got.data, propertyUpdates.v)
    THEN ReturnPlan(Fail(CaughtError(UpdateFailed, "TypeError")))
    ELSE WritePlan(UpdateMerge(got.data, propertyUpdates))

\* storageActions.updateStoredPropsForKey(key, propertyUpdates).
TypedUpdate(st, key, propertyUpdates, fault) ==
    TypedCommit(st, key,
                TypedUpdatePlan(TypedGetResult(st, key, fault), propertyUpdates),
                fault, UpdateFailed)

-----------------------------------------------------------------------------
(***************************************************************************)
(* Callers.  In Spec one caller makes one whole call per step (the module  *)
(* is synchronous) and then takes its result, and other code sharing the   *)
(* store may write raw text to it or remove an entry between calls.  last  *)
(* records the call just made: what was called with what, the item its key *)
(* held before, and what came back.                                        *)
(***************************************************************************)
EmptyStore == [k \in {} |-> <<>>]

\* Text other code may leave in the store: the empty string and text that
\* is not JSON.
RawTexts == {<<>>, <<"{">>, <<"nul">>, <<"{", StrTok("a"), ":", "1", ",", "}">>}

\* The second key is a bystander to the calls on the first: it is written
\* with one value only.
BystanderValues == {JNum(1)}

ArgsFor(key, S) == IF key = "k1" THEN S ELSE S \cap BystanderValues

NoCall ==
    [op |-> "none", variant |-> "none", key |-> "", value |-> JUndef,
     property |-> "", preserve |-> FALSE, fault |-> "none",
     before |-> NullItem, ret |-> Return(JUndef)]

Called(op, variant, key, value, property, preserve, fault, out) ==
    /\ store' = out.store
    /\ last' = [op |-> op, variant |-> variant, key |-> key, value |-> value,
                property |-> property, preserve |-> preserve, fault |-> fault,
                before |-> getItem(store, key), ret |-> out.ret]
    /\ UNCHANGED <<pc, calls, seen, plans, rets, log>>

LegacyGetEntryFromStorage ==
    /\ last = NoCall
    /\ \E key \in Keys, fault \in {"none", "get"} :
           Called("get", "legacy", key, JUndef, "", FALSE, fault,
                  LegacyGet(store, key, fault))

LegacySetItemInStorage ==
    /\ last = NoCall
    /\ \E key \in Keys, preserve \in BOOLEAN, fault \in Faults :
           \E value \in ArgsFor(key, IF preserve THEN Objects ELSE Values) :
               /\ (fault = "get") => preserve
               /\ Called("set", "legacy", key, value, "", preserve, fault,
                         LegacySet(store, key, value, preserve, fault))

LegacyHasPropertyForKey ==
    /\ last = NoCall
    /\ \E key \in Keys, property \in Props, fault \in {"none", "get"} :
           Called("has", "legacy", key, JUndef, property, FALSE, fault,
                  LegacyHas(store, key, property, fault))

LegacyUpdateStoredPropsForKey ==
    /\ last = NoCall
    /\ \E key \in Keys, fault \in Faults :
           \E updates \in ArgsFor(key, Objects) :
               Called("update", "legacy", key, updates, "", FALSE, fault,
                      LegacyUpdate(store, key, updates, fault))

TypedGetEntryFromStorage ==
    /\ last = NoCall
    /\ \E key \in Keys, fault \in {"none", "get"} :
           Called("get", "typed", key, JUndef, "", FALSE, fault,
                  TypedGet(store, key, fault))

TypedSetItemInStorage ==
    /\ last = NoCall
    /\ \E key \in Keys, preserve \in BOOLEAN, fault \in Faults :
           \E value \in ArgsFor(key, IF preserve THEN Objects ELSE Values) :
               /\ (fault = "get") => preserve
               /\ Called("set", "typed", key, value, "", preserve, fault,
                         TypedSet(store, key, value, preserve, fault))

TypedHasPropertyForKey ==
    /\ last = NoCall
    /\ \E key \in Keys, property \in Props, fault \in {"none", "get"} :
           Called("has", "typed", key, JUndef, property, FALSE, fault,
                  TypedHas(store, key, property, fault))

TypedUpdateStoredPropsForKey ==
    /\ last = NoCall
    /\ \E key \in Keys, fault \in Faults :
           \E updates \in ArgsFor(key, Objects) :
               Called("update", "typed", key, updates, "", FALSE, fault,
                      TypedUpdate(store, key, updates, fault))

\* Other code sharing the store writes raw text under the first key.
ExternalSetItem ==
    /\ last = NoCall
    /\ \E text \in RawTexts :
        /\ store # setItem(store, "k1", text)
        /\ store' = setItem(store, "k1", text)
        /\ last' = NoCall
        /\ UNCHANGED <<pc, calls, seen, plans, rets, log>>

\* Other code sharing the store removes an entry.
ExternalRemoveItem ==
    /\ last = NoCall
    /\ \E key \in DOMAIN store :
        /\ store' = removeItem(store, key)
        /\ last' = NoCall
        /\ UNCHANGED <<pc, calls, seen, plans, rets, log>>

\* The caller takes the result of its call and goes on.
CallReturns ==
    /\ last # NoCall
    /\ last' = NoCall
    /\ UNCHANGED <<store, pc, calls, seen, plans, rets, log>>

Callers == {1, 2}

NoPlan == ReturnPlan(Return(JUndef))

Idle ==
    /\ pc = [c \in Callers |-> "idle"]
    /\ calls = [c \in Callers |-> NoCall]
    /\ seen = [c \in Callers |-> NullItem]
    /\ plans = [c \in Callers |-> NoPlan]
    /\ rets = [c \in Callers |-> Return(JUndef)]
    /\ log = <<>>

Init ==
    /\ store = EmptyStore
    /\ last = NoCall
    /\ Idle

Next ==
    \/ LegacyGetEntryFromStorage
    \/ LegacySetItemInStorage
    \/ LegacyHasPropertyForKey
    \/ LegacyUpdateStoredPropsForKey
    \/ TypedGetEntryFromStorage
    \/ TypedSetItemInStorage
    \/ TypedHasPropertyForKey
    \/ TypedUpdateStoredPropsForKey
    \/ ExternalSetItem
    \/ ExternalRemoveItem
    \/ CallReturns

Spec == Init /\ [][Next]_vars

-----------------------------------------------------------------------------
(***************************************************************************)
(* Two callers sharing the store (two browsing contexts of one origin),    *)
(* each making one read-then-write call on the same key.  getItem and      *)
(* setItem are atomic; nothing makes the pair atomic, so a step of the     *)
(* other caller may fall between the read and the write.                   *)
(***************************************************************************)
RaceKey == "k1"

\* Entries the key holds when the callers start.
RaceSeeds ==
    {JObj(<<>>), JObj(<<Member("a", JNum(1))>>),
     JObj(<<Member("a", JNum(1)), Member("b", JNum(1))>>),
     JObj(<<Member("a", JNum(0)), Member("b", JNum(0))>>)}

\* Arguments of the racing calls: one property, one number.
RaceArgs == {JObj(<<Member(p, JNum(n))>>) : p \in Props, n \in Nums}

\* Caller c calls updateStoredPropsForKey(RaceKey, value) or
\* setItemInStorage(RaceKey, value, true) of either variant.
RaceCall(c) ==
    /\ pc[c] = "idle"
    /\ \E variant \in {"legacy", "typed"}, op \in {"update", "set"},
          value \in RaceArgs :
           calls' = [calls EXCEPT ![c] =
                       [NoCall EXCEPT !.op = op, !.variant = variant,
                                      !.key = RaceKey, !.value = value,
                                      !.preserve = (op = "set")]]
    /\ pc' = [pc EXCEPT ![c] = "called"]
    /\ UNCHANGED <<store, last, seen, plans, rets, log>>

\* What caller c's call does with the entry it reads, up to its setItem.
RacePlan(call, st) ==
    IF call.variant = "legacy"
    THEN LET got == LegacyGetCompletion(st, call.key, "none")
         IN  IF call.op = "update"
             THEN LegacyUpdatePlan(got, call.value)
             ELSE LegacyPreservePlan(got, call.value)
    ELSE LET got == TypedGetResult(st, call.key, "none")
         IN  IF call.op = "update"
             THEN TypedUpdatePlan(got, call.value)
             ELSE TypedPreservePlan(got, call.value)

\* A write that reads the entry again and stores what the call makes of it:
\* the read and the write as one atomic step.
RaceCommitRereads(call, st, plan) ==
    IF call.variant = "legacy"
    THEN LegacyCommit(st, call.key, RacePlan(call, st), "none")
    ELSE TypedCommit(st, call.key, RacePlan(call, st), "none",
                     IF call.op = "update" THEN UpdateFailed ELSE SetFailed)

\* What caller c's call does from its setItem on.
RaceCommit(call, st, plan) ==
    IF call.variant = "legacy"
    THEN LegacyCommit(st, call.key, plan, "none")
    ELSE TypedCommit(st, call.key, plan, "none",
                     IF call.op = "update" THEN UpdateFailed ELSE SetFailed)

\* The call of caller c reads the entry and computes what it will store.
RaceRead(c) ==
    /\ pc[c] = "called"
    /\ LET plan == RacePlan(calls[c], store)
       IN  /\ seen' = [seen EXCEPT ![c] = getItem(store, calls[c].key)]
           /\ plans' = [plans EXCEPT ![c] = plan]
           /\ pc' = [pc EXCEPT ![c] = IF plan.write THEN "read" ELSE "done"]
           /\ rets' = [rets EXCEPT ![c] = IF plan.write THEN @ ELSE plan.ret]
    /\ log' = Append(log, <<c, "read">>)
    /\ UNCHANGED <<store, last, calls>>

\* The call of caller c stores what it computed and returns.
RaceWrite(c) ==
    /\ pc[c] = "read"
    /\ LET out == RaceCommit(calls[c], store, plans[c])
       IN  /\ store' = out.store
           /\ rets' = [rets EXCEPT ![c] = out.ret]
    /\ pc' = [pc EXCEPT ![c] = "done"]
    /\ log' = Append(log, <<c, "write">>)
    /\ UNCHANGED <<last, calls, seen, plans>>

InitRace ==
    /\ store \in {setItem(EmptyStore, RaceKey, JSONstringify(e)) : e \in RaceSeeds}
    /\ last = NoCall
    /\ Idle

NextRace == \E c \in Callers : RaceCall(c) \/ RaceRead(c) \/ RaceWrite(c)

SpecRace == InitRace /\ [][NextRace]_vars

-----------------------------------------------------------------------------
(***************************************************************************)
(* Properties.  The state predicates speak of the call recorded in last:   *)
(* the entry its key held before and the entry it holds now.               *)
(***************************************************************************)
EntryBefore == JSONparse(last.before.text)

HadObject ==
    ~ItemFalsy(last.before) /\ EntryBefore.ok /\ EntryBefore.val.t = "obj"

ItemNow == getItem(store, last.key)

EntryNow == JSONparse(ItemNow.text)

HoldsObject == ~ItemNow.isNull /\ EntryNow.ok /\ EntryNow.val.t = "obj"

\* The call reported success: true (legacy) or success = true (typed).
Succeeded(call) ==
    IF call.variant = "legacy" THEN call.ret = Return(JBool(TRUE)) ELSE call.ret.success

\* The call reported failure: false (legacy) or success = false (typed).
Failed(call) ==
    IF call.variant = "legacy" THEN call.ret = Return(JBool(FALSE)) ELSE ~call.ret.success

\* C1: preserve-mode setItemInStorage(k, v, true) on an existing object entry
\* e succeeds and leaves the entry with the keys of e and of v, each key of e
\* keeping its value (falsy or not) and each other key of v taking v's value.
C1_PreserveMerge ==
    (last.op = "set" /\ last.preserve /\ last.fault = "none" /\ HadObject) =>
        /\ Succeeded(last)
        /\ HoldsObject
        /\ ObjKeys(EntryNow.val) = ObjKeys(EntryBefore.val) \cup ObjKeys(last.value)
        /\ \A p \in ObjKeys(EntryBefore.val) :
               PropRead(EntryNow.val, p) = ObjGet(EntryBefore.val, p)
        /\ \A p \in ObjKeys(last.value) \ ObjKeys(EntryBefore.val) :
               PropRead(EntryNow.val, p) = ObjGet(last.value, p)

\* C2: updateStoredPropsForKey(k, u) on an existing object entry e succeeds
\* and leaves an entry with exactly the keys of e, each holding u's value if
\* u has the key and e's value otherwise.
C2_UpdateExistingOnly ==
    (last.op = "update" /\ last.fault = "none" /\ HadObject) =>
        /\ Succeeded(last)
        /\ HoldsObject
        /\ ObjKeys(EntryNow.val) = ObjKeys(EntryBefore.val)
        /\ \A p \in ObjKeys(EntryBefore.val) :
               PropRead(EntryNow.val, p) =
                   IF p \in ObjKeys(last.value)
                   THEN ObjGet(last.value, p)
                   ELSE ObjGet(EntryBefore.val, p)

\* C3: with no entry under k, setItemInStorage(k, v, true) does what
\* setItemInStorage(k, v, false) does: it reports the same success and
\* leaves the serialization of v under k.
C3_PreserveOnAbsentIsPlainWrite ==
    (last.op = "set" /\ last.preserve /\ last.fault = "none" /\ last.before.isNull) =>
        /\ last.ret = (IF last.variant = "legacy"
                       THEN LegacySet(store, last.key, last.value, FALSE, "none").ret
                       ELSE TypedSet(store, last.key, last.value, FALSE, "none").ret)
        /\ ItemNow = [isNull |-> FALSE, text |-> JSONstringify(last.value)]

\* C4: round trip: after setItemInStorage(k, v, false) with the store not
\* faulting, getEntryFromStorage(k) yields v (legacy: v itself; typed:
\* success = true with data v).
C4_RoundTrip ==
    (last.op = "set" /\ ~last.preserve /\ last.fault = "none") =>
        IF last.variant = "legacy"
        THEN LegacyGet(store, last.key, "none").ret = Return(last.value)
        ELSE TypedGet(store, last.key, "none").ret = Ok(last.value)

C4_Witness ==
    /\ last.op = "set" /\ ~last.preserve /\ last.fault = "none"
    /\ last.variant = "legacy"
    /\ ~last.before.isNull
    /\ last.value = JObj(<<Member("b", JStr("")), Member("a", JNum(0))>>)
    /\ LegacyGet(store, last.key, "none").ret = Return(last.value)

\* C5: updateStoredPropsForKey(k, u) with no entry under k fails (legacy:
\* false; typed: success = false with the not-found error) for every object
\* u, the empty one included, and leaves no entry under k.
C5_UpdateOnAbsentFails ==
    (last.op = "update" /\ last.fault = "none" /\ last.before.isNull) =>
        /\ IF last.variant = "legacy"
           THEN last.ret = Return(JBool(FALSE))
           ELSE last.ret = Fail(NotFoundError(last.key))
        /\ ItemNow.isNull

\* C6: no legacy operation throws: getEntryFromStorage returns the parsed
\* value or null, the other three return a boolean, whatever the store holds
\* and whichever store call faults.
C6_LegacyNeverThrows ==
    (last.variant = "legacy") =>
        /\ ~last.ret.thrown
        /\ last.op = "get" =>
               \/ last.ret.value = JNull
               \/ /\ ~ItemFalsy(last.before) /\ EntryBefore.ok
                  /\ last.ret.value = EntryBefore.val
        /\ last.op \in {"set", "has", "update"} => last.ret.value.t = "bool"

\* C7: hasPropertyForKey(k, p) with no entry under k returns the boolean
\* false (legacy) or a failure carrying the not-found error and no data
\* (typed).
C7_HasOnAbsent ==
    (last.op = "has" /\ last.fault = "none" /\ last.before.isNull) =>
        IF last.variant = "legacy"
        THEN last.ret = Return(JBool(FALSE))
        ELSE /\ ~last.ret.success
             /\ last.ret.error = NotFoundError(last.key)
             /\ "data" \notin DOMAIN last.ret

\* C8: every StorageResult of the typed variant has no error field when
\* success is true and no data field when success is false.
C8_StorageResultInvariant ==
    (last.variant = "typed") =>
        /\ last.ret.success => "error" \notin DOMAIN last.ret
        /\ ~last.ret.success => "data" \notin DOMAIN last.ret

C8_Witness ==
    /\ last.variant = "typed" /\ last.op = "set" /\ last.preserve
    /\ last.ret = Fail(CaughtError(GetFailed, "SyntaxError"))

\* C10: a setItemInStorage or updateStoredPropsForKey that reports failure
\* leaves the whole store as it was, and getEntryFromStorage and
\* hasPropertyForKey never change the store.
C10_StoreUnchangedOnFailure ==
    [][(last' # NoCall) =>
          /\ (last'.op \in {"set", "update"} /\ Failed(last')) => store' = store
          /\ (last'.op \in {"get", "has"}) => store' = store]_vars

C10_Witness ==
    /\ last.op = "update" /\ last.variant = "legacy" /\ Failed(last)
    /\ "k2" \in DOMAIN store
    /\ ~ItemFalsy(last.before) /\ ~EntryBefore.ok
    /\ ItemNow = last.before

(***************************************************************************)
(* The race.                                                               *)
(***************************************************************************)
RaceSucceeded(c) == Succeeded([calls[c] EXCEPT !.ret = rets[c]])

\* Both callers read before either wrote, c wrote first and d last.
Interleaved(c, d) ==
    /\ Len(log) = 4
    /\ log[1][2] = "read" /\ log[2][2] = "read"
    /\ log[3] = <<c, "write">> /\ log[4] = <<d, "write">>

\* The entry the callers read, and the entry the store holds in the end.
RaceRead1 == JSONparse(seen[1].text).val

RaceNow == JSONparse(getItem(store, RaceKey).text).val

\* Caller c's call set property p to a value the entry did not have.
ChangedBy(c, p) ==
    /\ p \in ObjKeys(calls[c].value)
    /\ PropRead(plans[c].val, p) # PropRead(RaceRead1, p)

\* C9: when both calls read the entry before either writes it, both report
\* success and the change of the first writer to a property the second does
\* not name is not in the store in the end: the property is as it was read.
C9_InterleavedUpdateIsLost ==
    \A c \in Callers, d \in Callers, p \in Props :
        (/\ c # d /\ Interleaved(c, d)
         /\ ChangedBy(c, p) /\ p \notin ObjKeys(calls[d].value)) =>
            /\ RaceSucceeded(c) /\ RaceSucceeded(d)
            /\ PropRead(RaceNow, p) = PropRead(RaceRead1, p)
            /\ PropRead(RaceNow, p) # PropRead(plans[c].val, p)

\* A lost update: both calls reported success and the store lacks the change
\* of one of them.
C9_LostUpdate ==
    \E c \in Callers, d \in Callers, p \in Props :
        /\ c # d /\ Interleaved(c, d)
        /\ calls[c].op = "update" /\ calls[d].op = "update"
        /\ calls[c].variant = "typed" /\ calls[d].variant = "typed"
        /\ ChangedBy(c, p) /\ ChangedBy(d, CHOOSE q \in Props : q # p)
        /\ RaceSucceeded(c) /\ RaceSucceeded(d)
        /\ PropRead(RaceNow, p) # PropRead(plans[c].val, p)

====
